---- MODULE Spec2Model ----
(***************************************************************************)
(* The CSV dashboard of src/dashboard.py as a state machine.               *)
(*                                                                         *)
(* The script is run top to bottom by the framework once per event of a    *)
(* browser session (a file upload, a widget change, a manual rerun).  One  *)
(* action of the model is one such event together with the whole script    *)
(* run it triggers.  The state that outlives a run is                      *)
(*   - uploaded_file : what each session's file uploader holds,            *)
(*   - page          : what each session's last run rendered, widgets and  *)
(*                     their values included (the framework keeps the      *)
(*                     value of a widget only while the widget is          *)
(*                     rendered with the same label, options and default), *)
(*   - cache         : the memo of load_data, shared by all sessions,      *)
(*   - parses        : how often pd.read_csv ran per file (observer),      *)
(*   - runner        : the session of the latest run (observer).           *)
(* col and picked serve a second specification that applies the default    *)
(* selection of the multi-select to bounded columns.                       *)
(***************************************************************************)
EXTENDS Integers, Sequences, FiniteSets

VARIABLES uploaded_file, page, cache, parses, runner, col, picked

vars == <<uploaded_file, page, cache, parses, runner, col, picked>>

\* ------------------------------------------------------------------ bounds

\* read_csv runs of one file the model follows (a corrupt file is parsed
\* again by every run).
MaxParses == 2
\* Longest column the second specification draws.
MaxLen == 6

\* How many items the multi-select pre-selects.
DefaultItems == 5

\* ------------------------------------------------------------------- cells

Num(n) == [k |-> "num", n |-> n, s |-> ""]
Str(s) == [k |-> "str", n |-> 0, s |-> s]
NaN == [k |-> "nan", n |-> 0, s |-> ""]

\* ---------------------------------------------------------------- sessions

\* Browser sessions connected to the one server process.
Sessions == {"s1", "s2"}

\* uploaded_file is None until a file is picked (line 18, line 21).
None == "None"

\* ------------------------------------------------------------ uploaded files

(***************************************************************************)
(* An uploaded file is identified by its name and bytes; the bytes are     *)
(* modelled as the header line and the data lines already split into       *)
(* fields.  The four files are the inputs the sessions draw from:          *)
(*   sales.csv  - none of the well-known column names; missing cells       *)
(*   wm.csv     - the well-known column names of lines 52, 57 and 62       *)
(*   notes.csv  - text columns only                                        *)
(*   broken.csv - a data line with more fields than the header             *)
(***************************************************************************)
Files == {"sales.csv", "wm.csv", "notes.csv", "broken.csv"}

FileContent(f) ==
  CASE f = "sales.csv" ->
         [header |-> <<"week", "item", "qty", "store">>,
          lines  |-> << <<Num(1), Str("a"), Num(5), Str("n")>>,
                        <<Num(1), Str("b"), Num(3), Str("n")>>,
                        <<Num(2), NaN, NaN>> >>]
    [] f = "wm.csv" ->
         [header |-> <<"dept", "wm_yr_wk", "walmart_item_number", "Week_of_Supply">>,
          lines  |-> << <<Str("d"), Num(1), Str("i"), Num(4)>> >>]
    [] f = "notes.csv" ->
         [header |-> <<"who", "what", "where", "why">>,
          lines  |-> << <<Str("p"), Str("q"), Str("r"), Str("s")>>,
                        <<Str("p")>> >>]
    [] OTHER ->
         [header |-> <<"a", "b", "c", "d">>,
          lines  |-> << <<Num(1), Num(2), Num(3), Num(4), Num(5)>> >>]

\* ------------------------------------------------------------------ tables

\* A DataFrame: ordered column labels, a dtype per column, the rows in file
\* order.
EmptyTable == [cols |-> <<>>, dtype |-> <<>>, rows |-> <<>>]

Range(q) == {q[i] : i \in 1..Len(q)}

Column(df, c) == [i \in 1..Len(df.rows) |-> df.rows[i][c]]

\* The dtype pandas infers for a parsed column: object when it has no value or
\* holds text, float64 when it is numeric with missing cells, int64 otherwise.
InferDtype(cells) ==
  IF cells = <<>> \/ \E i \in 1..Len(cells) : cells[i].k = "str" THEN "object"
  ELSE IF \E i \in 1..Len(cells) : cells[i].k = "nan" THEN "float"
  ELSE "int"

\* pd.read_csv (line 13): raises on a file without a header line and on a data
\* line with more fields than the header; pads a short line with missing
\* cells; infers each column's dtype.
read_csv(content) ==
  IF content.header = <<>> THEN
    [exc |-> "EmptyDataError", df |-> EmptyTable]
  ELSE IF \E i \in 1..Len(content.lines) :
            Len(content.lines[i]) > Len(content.header) THEN
    [exc |-> "ParserError", df |-> EmptyTable]
  ELSE
    LET n == Len(content.header)
        cell(i, j) == IF j <= Len(content.lines[i]) THEN content.lines[i][j] ELSE NaN
        colcells(j) == [i \in 1..Len(content.lines) |-> cell(i, j)]
    IN  [exc |-> "",
         df  |-> [cols  |-> content.header,
                  dtype |-> [c \in Range(content.header) |->
                               InferDtype(colcells(CHOOSE j \in 1..n : content.header[j] = c))],
                  rows  |-> [i \in 1..Len(content.lines) |->
                               [c \in Range(content.header) |->
                                  cell(i, CHOOSE j \in 1..n : content.header[j] = c)]]]]

\* df.shape[0], df.shape[1], df.isna().sum().sum() (lines 30-32).
Shape0(df) == Len(df.rows)
Shape1(df) == Len(df.cols)
IsnaSum(df) ==
  Cardinality({<<i, c>> \in (1..Len(df.rows)) \X Range(df.cols) : df.rows[i][c].k = "nan"})

\* df.columns.tolist() (line 44).
AllCols(df) == df.cols

\* Mutant of NumericCols: the Y picker is offered every column.
NumericColsAll(df) == df.cols

\* df.select_dtypes(include=['float', 'int']).columns.tolist() (line 43).
IsNumericCol(df, c) == df.dtype[c] \in {"float", "int"}

NumericCols(df) == SelectSeq(df.cols, LAMBDA c : IsNumericCol(df, c))

\* Series.unique(): the distinct cells in the order they are first met; a
\* missing cell is one of them.
RECURSIVE Unique(_)
Unique(q) ==
  IF q = <<>> THEN <<>>
  ELSE LET r == Unique(SubSeq(q, 1, Len(q) - 1))
       IN  IF q[Len(q)] \in Range(r) THEN r ELSE Append(r, q[Len(q)])

\* df[color_col].unique() (line 70).
UniqueItems(df, color_col) == Unique(Column(df, color_col))

\* Mutant of FirstItems: the slice is one item short.
FirstItemsShort(unique_items) ==
  SubSeq(unique_items, 1,
         IF Len(unique_items) < DefaultItems - 1 THEN Len(unique_items) ELSE DefaultItems - 1)

\* unique_items[:5] (line 76): a slice never reaches past the end.
FirstItems(unique_items) ==
  SubSeq(unique_items, 1,
         IF Len(unique_items) < DefaultItems THEN Len(unique_items) ELSE DefaultItems)

\* list.index(name) if name in list else 0 (lines 52, 57, 62), as a position
\* of the 1-based sequence.
DefaultIndex(options, name) ==
  IF name \in Range(options)
  THEN CHOOSE i \in 1..Len(options) :
         options[i] = name /\ \A j \in 1..(i - 1) : options[j] # name
  ELSE 1

\* Mutant of FilteredDf: the frame is pivoted unfiltered.
FilteredDfAll(df, color_col, selected_items) == df

\* df[df[color_col].isin(selected_items)] (line 81): the rows, in order, whose
\* cell is one of the selected items (isin matches a missing cell with a
\* selected missing cell).
FilteredDf(df, color_col, selected_items) ==
  [df EXCEPT !.rows = SelectSeq(df.rows, LAMBDA r : r[color_col] \in selected_items)]

\* --------------------------------------------------------------- pivot_table

\* The reshaped frame: its index labels, its column labels, and the cells that
\* hold a value (a cell outside DOMAIN cells is empty).
EmptyView == [index |-> {}, columns |-> {}, cells |-> [p \in {} |-> 0]]

RECURSIVE SumValues(_, _)
SumValues(rows, values) ==
  IF rows = <<>> THEN 0
  ELSE (IF Head(rows)[values].k = "num" THEN Head(rows)[values].n ELSE 0)
       + SumValues(Tail(rows), values)

\* DataFrame.pivot_table(index, columns, values, aggfunc='sum') (lines 86-91)
\* on a frame wider than the three labels, as every frame here is.  With a
\* label used twice the frame cut to the labels has two columns of one name
\* and the grouping raises ValueError.  Otherwise rows with a missing key are
\* left out of the groups, each group sums its values (missing ones skipped),
\* and the second key is unstacked into the columns.
pivot_table(data, index, columns, values) ==
  IF values \notin Range(data.cols) THEN
    [exc |-> "KeyError", view |-> EmptyView]
  ELSE IF Cardinality({index, columns, values}) < 3 THEN
    [exc |-> "ValueError", view |-> EmptyView]
  ELSE
    LET keyed  == SelectSeq(data.rows, LAMBDA r : r[index].k # "nan" /\ r[columns].k # "nan")
        groups == {<<keyed[i][index], keyed[i][columns]>> : i \in 1..Len(keyed)}
        group(p) == SelectSeq(keyed, LAMBDA r : r[index] = p[1] /\ r[columns] = p[2])
    IN  [exc  |-> "",
         view |-> [index   |-> {p[1] : p \in groups},
                   columns |-> {p[2] : p \in groups},
                   cells   |-> [p \in groups |-> SumValues(group(p), values)]]]

\* ------------------------------------------------------------------ load_data

\* Mutant of CacheKey: the argument is left out of the key.
CacheKeyOfNothing(file) == "load_data"

\* The key st.cache_data derives from load_data's argument (line 11): the
\* uploaded file's name and bytes.
CacheKey(file) == file

\* Mutant of load_data: the function is not memoized.
load_data_unmemoized(file, memo) ==
  LET r == read_csv(FileContent(file))
  IN  [exc |-> r.exc, df |-> r.df, parsed |-> TRUE]

\* load_data (lines 11-13): the memoized table when the key is cached, else
\* the result of read_csv; parsed tells whether read_csv ran.
load_data(file, memo) ==
  IF CacheKey(file) \in DOMAIN memo
  THEN [exc |-> "", df |-> memo[CacheKey(file)], parsed |-> FALSE]
  ELSE LET r == read_csv(FileContent(file))
       IN  [exc |-> r.exc, df |-> r.df, parsed |-> TRUE]

\* The memo after the call: a returned value is stored, a raised exception is
\* not.
CacheAfter(file, memo) ==
  LET r == load_data(file, memo)
  IN  IF r.parsed /\ r.exc = ""
      THEN [k \in DOMAIN memo \cup {CacheKey(file)} |->
              IF k = CacheKey(file) THEN r.df ELSE memo[k]]
      ELSE memo

\* -------------------------------------------------------------------- widgets

\* What one run has put on a session's page.
\*   exc    an exception that left the script (nothing caught it)
\*   fresh  the widgets whose value is their default in this run
Blank ==
  [info |-> FALSE, error |-> "", exc |-> "", loaded |-> FALSE, df |-> EmptyTable,
   metrics |-> <<>>, preview |-> FALSE,
   pickers |-> FALSE, x_axis |-> "", y_axis |-> "", color_col |-> "",
   multiselect |-> FALSE, items_label |-> "", unique_items |-> <<>>,
   selected_items |-> {}, fresh |-> {},
   warning |-> "", chart |-> FALSE, chart_data |-> EmptyView, chart_table |-> FALSE]

\* st.selectbox(label, options, index): the value the session holds for the
\* widget when it was rendered before with the same options, else the option
\* at index; None ("") without options.
selectbox(options, index, kept, value) ==
  IF options = <<>> THEN "" ELSE IF kept THEN value ELSE options[index]

\* st.multiselect(label, options, default) (lines 73-77).
multiselect(default, kept, value) ==
  IF kept THEN value ELSE Range(default)

KeptX(prev, all_cols) == prev.pickers /\ AllCols(prev.df) = all_cols
KeptY(prev, numeric_cols) == prev.pickers /\ NumericCols(prev.df) = numeric_cols
KeptItems(prev, color_col, unique_items) ==
  prev.multiselect /\ prev.items_label = color_col /\ prev.unique_items = unique_items

\* --------------------------------------------------------------------- script

\* Mutant of HasNumeric: the test is on all_cols.
HasColumns(df) == AllCols(df) # <<>>

\* if numeric_cols: (line 46)
HasNumeric(df) == NumericCols(df) # <<>>

\* Mutant of HasSelection: the chart is built whatever is selected.
HasSelectionAlways(selected_items) == TRUE

\* if selected_items: (line 79)
HasSelection(selected_items) == selected_items # {}

\* Lines 80-98: filter, pivot, chart, chart data.
Aggregate(p, df) ==
  LET filtered_df == FilteredDf(df, p.color_col, p.selected_items)
      r == pivot_table(filtered_df, p.x_axis, p.color_col, p.y_axis)
  IN  IF r.exc # "" THEN [p EXCEPT !.exc = r.exc]
      ELSE [p EXCEPT !.chart = TRUE, !.chart_data = r.view, !.chart_table = TRUE]

\* Lines 48-100: the three pickers, the multi-select, then the chart or the
\* warning.
Pickers(p, df, prev) ==
  LET all_cols == AllCols(df)
      numeric_cols == NumericCols(df)
      default_x == DefaultIndex(all_cols, "wm_yr_wk")
      x_axis == selectbox(all_cols, default_x, KeptX(prev, all_cols), prev.x_axis)
      default_y == DefaultIndex(numeric_cols, "Week_of_Supply")
      y_axis == selectbox(numeric_cols, default_y, KeptY(prev, numeric_cols), prev.y_axis)
      default_color == DefaultIndex(all_cols, "walmart_item_number")
      color_col == selectbox(all_cols, default_color, KeptX(prev, all_cols), prev.color_col)
      unique_items == UniqueItems(df, color_col)
      kept == KeptItems(prev, color_col, unique_items)
      selected_items == multiselect(FirstItems(unique_items), kept, prev.selected_items)
      q == [p EXCEPT !.pickers = TRUE, !.x_axis = x_axis, !.y_axis = y_axis,
                     !.color_col = color_col, !.multiselect = TRUE,
                     !.items_label = color_col, !.unique_items = unique_items,
                     !.selected_items = selected_items,
                     !.fresh = (IF KeptX(prev, all_cols) THEN {} ELSE {"x", "color"})
                               \cup (IF KeptY(prev, numeric_cols) THEN {} ELSE {"y"})
                               \cup (IF kept THEN {} ELSE {"items"})]
  IN  IF HasSelection(selected_items) THEN Aggregate(q, df)
      ELSE [q EXCEPT !.warning = "select_item"]

\* Lines 27-103: metrics, preview, then the plotting section or the warning.
Sections(df, prev) ==
  LET p == [Blank EXCEPT !.loaded = TRUE, !.df = df,
                         !.metrics = <<Shape0(df), Shape1(df), IsnaSum(df)>>,
                         !.preview = TRUE]
  IN  IF HasNumeric(df) THEN Pickers(p, df, prev)
      ELSE [p EXCEPT !.warning = "no_numeric"]

\* The body of the try (lines 23-103).
TryBody(file, prev, memo) ==
  LET r == load_data(file, memo)
  IN  IF r.exc # "" THEN [Blank EXCEPT !.exc = r.exc] ELSE Sections(r.df, prev)

\* Mutant of Except: the exception is not caught.
ExceptNothing(p) == p

\* except Exception as e: st.error(...) (lines 105-106).
Except(p) ==
  IF p.exc # "" THEN [p EXCEPT !.error = p.exc, !.exc = ""] ELSE p

\* One run of the script (lines 21-108) for a session whose uploader holds
\* file and whose widgets hold the values of prev.
Script(file, prev, memo) ==
  IF file # None THEN Except(TryBody(file, prev, memo))
  ELSE [Blank EXCEPT !.info = TRUE]

\* -------------------------------------------------------------------- actions

Init ==
  /\ uploaded_file = [s \in Sessions |-> None]
  /\ page = [s \in Sessions |-> Script(None, Blank, <<>>)]
  /\ cache = <<>>
  /\ parses = [f \in Files |-> 0]
  /\ runner = None
  /\ col = <<>>
  /\ picked = [done |-> FALSE, default |-> <<>>, selected |-> {}]

\* The framework runs the script for session s with file in its uploader and
\* the widget values of prev; the run is cut off where read_csv would run
\* more than MaxParses times on one file.
RunScript(s, file, prev) ==
  LET parsed == file # None /\ load_data(file, cache).parsed
  IN  /\ parsed => parses[file] < MaxParses
      /\ uploaded_file' = [uploaded_file EXCEPT ![s] = file]
      /\ page' = [page EXCEPT ![s] = Script(file, prev, cache)]
      /\ cache' = IF file = None THEN cache ELSE CacheAfter(file, cache)
      /\ parses' = IF parsed THEN [parses EXCEPT ![file] = @ + 1] ELSE parses
      /\ runner' = s
      /\ UNCHANGED <<col, picked>>

\* The user picks another file in the uploader, or clears it (line 18).
Upload(s, file) ==
  /\ file # uploaded_file[s]
  /\ RunScript(s, file, page[s])

\* The user asks for a rerun of the page as it is.
Rerun(s) == RunScript(s, uploaded_file[s], page[s])

\* The user picks another X column (line 53).
SelectX(s, v) ==
  /\ page[s].pickers
  /\ v \in Range(AllCols(page[s].df)) \ {page[s].x_axis}
  /\ RunScript(s, uploaded_file[s], [page[s] EXCEPT !.x_axis = v])

\* The user picks another Y column (line 58).
SelectY(s, v) ==
  /\ page[s].pickers
  /\ v \in Range(NumericCols(page[s].df)) \ {page[s].y_axis}
  /\ RunScript(s, uploaded_file[s], [page[s] EXCEPT !.y_axis = v])

\* The user picks another grouping column (line 63).
SelectColor(s, v) ==
  /\ page[s].pickers
  /\ v \in Range(AllCols(page[s].df)) \ {page[s].color_col}
  /\ RunScript(s, uploaded_file[s], [page[s] EXCEPT !.color_col = v])

\* The user adds an item to the multi-select or removes one (line 73).
SelectItem(s, item) ==
  /\ page[s].multiselect
  /\ item \in Range(page[s].unique_items)
  /\ RunScript(s, uploaded_file[s],
               [page[s] EXCEPT !.selected_items =
                  IF item \in @ THEN @ \ {item} ELSE @ \cup {item}])

\* Every column label and every cell of the files, for the pickers' choices.
Labels == UNION {Range(FileContent(f).header) : f \in Files}
Items ==
  {NaN} \cup UNION {UNION {Range(FileContent(f).lines[i]) :
                             i \in 1..Len(FileContent(f).lines)} : f \in Files}

\* One event of session s, which draws its uploads from files.
Step(s, files) ==
  \/ \E file \in files \cup {None} : Upload(s, file)
  \/ Rerun(s)
  \/ \E v \in Labels : SelectX(s, v)
  \/ \E v \in Labels : SelectY(s, v)
  \/ \E v \in Labels : SelectColor(s, v)
  \/ \E item \in Items : SelectItem(s, item)

\* One session at work, every file at hand.
Next == Step("s1", Files)

Spec == Init /\ [][Next]_vars

\* The files the sessions of SpecShared upload: two that parse.
SharedFiles == {"wm.csv", "notes.csv"}

\* All sessions at work on the one server, in any interleaving of their runs.
NextShared == \E s \in Sessions : Step(s, SharedFiles)

SpecShared == Init /\ [][NextShared]_vars

\* ------------------------------------------------- the default of the multi-select

\* The cells a drawn column is made of.
ColCells == {Num(1), Num(2), Num(3), Num(4), Num(5), NaN}

RECURSIVE SeqsUpTo(_, _)
SeqsUpTo(S, n) ==
  IF n = 0 THEN {<<>>}
  ELSE LET shorter == SeqsUpTo(S, n - 1)
       IN  shorter \cup {Append(q, v) : q \in {r \in shorter : Len(r) = n - 1}, v \in S}

\* A frame whose grouping column "g" holds the drawn cells.
ColFrame(cells) ==
  [cols  |-> <<"g", "v", "w", "z">>,
   dtype |-> [c \in {"g", "v", "w", "z"} |-> IF c = "g" THEN InferDtype(cells) ELSE "int"],
   rows  |-> [i \in 1..Len(cells) |->
                [c \in {"g", "v", "w", "z"} |-> IF c = "g" THEN cells[i] ELSE Num(0)]]]

InitDefault ==
  /\ uploaded_file = [s \in Sessions |-> None]
  /\ page = [s \in Sessions |-> Script(None, Blank, <<>>)]
  /\ cache = <<>>
  /\ parses = [f \in Files |-> 0]
  /\ runner = None
  /\ col \in SeqsUpTo(ColCells, MaxLen)
  /\ picked = [done |-> FALSE, default |-> <<>>, selected |-> {}]

\* Lines 70-77 on the drawn column, for a session that has not touched the
\* multi-select.
Preselect ==
  /\ ~picked.done
  /\ LET unique_items == UniqueItems(ColFrame(col), "g")
         default == FirstItems(unique_items)
     IN  picked' = [done |-> TRUE, default |-> default,
                    selected |-> multiselect(default, FALSE, {})]
  /\ UNCHANGED <<uploaded_file, page, cache, parses, runner, col>>

NextDefault == Preselect

SpecDefault == InitDefault /\ [][NextDefault]_vars

\* ===================================================================== claims

\* The table a session's file parses to, read off the file itself.
TableOf(s) == read_csv(FileContent(uploaded_file[s])).df

Parses(f) == read_csv(FileContent(f)).exc = ""

RECURSIVE SumOfRows(_, _, _)
SumOfRows(df, I, y) ==
  IF I = {} THEN 0
  ELSE LET i == CHOOSE j \in I : TRUE
       IN  (IF df.rows[i][y].k = "num" THEN df.rows[i][y].n ELSE 0)
           + SumOfRows(df, I \ {i}, y)

\* The rows of df that the selection keeps and that carry both keys.
Contributing(df, x, c, selected) ==
  {i \in 1..Len(df.rows) :
     df.rows[i][c] \in selected /\ df.rows[i][x].k # "nan" /\ df.rows[i][c].k # "nan"}

\* The Aggregated View as the specification describes it.
ExpectedView(df, x, c, y, selected) ==
  LET I == Contributing(df, x, c, selected)
      pairs == {<<df.rows[i][x], df.rows[i][c]>> : i \in I}
  IN  [index   |-> {p[1] : p \in pairs},
       columns |-> {p[2] : p \in pairs},
       cells   |-> [p \in pairs |->
                      SumOfRows(df, {i \in I : df.rows[i][x] = p[1] /\ df.rows[i][c] = p[2]}, y)]]

\* A run that got as far as the Aggregator.
ReachedAggregator(p) == p.pickers /\ p.selected_items # {}

\* ------------------------------------------------------------------------- C1

C2_ViewIsSumMatrix ==
  \A s \in Sessions :
    ReachedAggregator(page[s]) =>
      /\ page[s].chart
      /\ page[s].chart_data =
           ExpectedView(TableOf(s), page[s].x_axis, page[s].color_col,
                        page[s].y_axis, page[s].selected_items)

\* ------------------------------------------------------------------------- C3

\* C3: a chart on a page is computed from the selection on that page: its
\* columns are selected items, every cell is the sum of Y over exactly the
\* rows of the table whose Group value is that selected item, and every such
\* row with both keys present is in the chart.
C3_ChartFromCurrentSelection ==
  \A s \in Sessions :
    page[s].chart =>
      LET p == page[s]
          df == TableOf(s)
          v == p.chart_data
      IN  /\ v.columns \subseteq p.selected_items
          /\ \A q \in DOMAIN v.cells :
               v.cells[q] =
                 SumOfRows(df, {i \in 1..Len(df.rows) :
                                  /\ df.rows[i][p.color_col] \in p.selected_items
                                  /\ df.rows[i][p.x_axis] = q[1]
                                  /\ df.rows[i][p.color_col] = q[2]}, p.y_axis)
          /\ \A i \in Contributing(df, p.x_axis, p.color_col, p.selected_items) :
               <<df.rows[i][p.x_axis], df.rows[i][p.color_col]>> \in DOMAIN v.cells
          /\ \A i \in 1..Len(df.rows) :
               df.rows[i][p.color_col] \notin p.selected_items =>
                 df.rows[i][p.color_col] \notin v.columns

\* A chart is shown while a row with both keys present is deselected.
C3_Witness ==
  \E s \in Sessions :
    /\ page[s].chart
    /\ page[s].chart_data.index # {}
    /\ "items" \notin page[s].fresh
    /\ \E i \in 1..Len(page[s].df.rows) :
         /\ page[s].df.rows[i][page[s].color_col] \notin page[s].selected_items
         /\ page[s].df.rows[i][page[s].color_col].k # "nan"
         /\ page[s].df.rows[i][page[s].x_axis].k # "nan"

\* ------------------------------------------------------------------------- C4

\* An exception is raised in the run a page comes from: the parse fails, or
\* the run reaches the Aggregator with a column label used twice.
Raises(s) ==
  /\ uploaded_file[s] # None
  /\ \/ ~Parses(uploaded_file[s])
     \/ /\ ReachedAggregator(page[s])
        /\ Cardinality({page[s].x_axis, page[s].color_col, page[s].y_axis}) < 3

C5_EmptySelectionWarns ==
  \A s \in Sessions :
    (page[s].multiselect /\ page[s].selected_items = {}) =>
      /\ page[s].error = "" /\ page[s].exc = ""
      /\ page[s].warning = "select_item"
      /\ ~page[s].chart /\ ~page[s].chart_table
      /\ page[s].chart_data = EmptyView
      /\ page[s].metrics # <<>> /\ page[s].preview /\ page[s].pickers

\* The user has deselected every item.
C5_Witness ==
  \E s \in Sessions :
    /\ page[s].multiselect /\ page[s].selected_items = {}
    /\ page[s].unique_items # <<>>
    /\ "items" \notin page[s].fresh

\* ------------------------------------------------------------------------- C6

\* C6: a run on a table without an integer or floating-point column shows the
\* metrics, the preview and the warning, and nothing of the plotting section.
C6_NoNumericSkipsPlot ==
  \A s \in Sessions :
    (page[s].loaded /\ \A c \in Range(page[s].df.cols) : page[s].df.dtype[c] = "object") =>
      /\ page[s].warning = "no_numeric"
      /\ ~page[s].pickers /\ ~page[s].multiselect
      /\ ~page[s].chart /\ ~page[s].chart_table /\ page[s].chart_data = EmptyView
      /\ page[s].metrics # <<>> /\ page[s].preview
      /\ page[s].error = "" /\ page[s].exc = ""

\* The text-only file is on the page.
C6_Witness ==
  \E s \in Sessions :
    /\ page[s].loaded /\ page[s].df.cols # <<>>
    /\ \A c \in Range(page[s].df.cols) : page[s].df.dtype[c] = "object"

\* ------------------------------------------------------------------------- C7

FirstAt(q, v) == CHOOSE i \in 1..Len(q) : q[i] = v /\ \A j \in 1..(i - 1) : q[j] # v

\* C7: the multi-select of a session that has not touched it holds the first
\* min(5, n) of the n distinct cells of the Group column, in the order in
\* which the column first shows them; all of them when n < 5.
C7_DefaultIsFirstFive ==
  picked.done =>
    LET n == Cardinality(Range(col))
        m == IF n < 5 THEN n ELSE 5
        d == picked.default
    IN  /\ Len(d) = m
        /\ \A i \in 1..Len(d) :
             /\ d[i] \in Range(col)
             /\ Cardinality({v \in Range(col) : FirstAt(col, v) < FirstAt(col, d[i])}) = i - 1
        /\ picked.selected = Range(d)
        /\ n < 5 => picked.selected = Range(col)

\* A column of more than five distinct cells, not in ascending order, with a
\* missing cell among the first five.
C7_Witness ==
  /\ picked.done
  /\ Cardinality(Range(col)) > 5
  /\ col[1] = Num(3) /\ col[2] = NaN /\ col[3] = Num(1)
  /\ picked.default = SubSeq(col, 1, 5)

\* ------------------------------------------------------------------------- C8

\* C8: a run that reaches the Aggregator with a selection that keeps no row,
\* or only rows with a missing key, shows a chart of a view without rows and
\* no error message.
C8_EmptyViewNoError ==
  \A s \in Sessions :
    (/\ ReachedAggregator(page[s])
     /\ Contributing(TableOf(s), page[s].x_axis, page[s].color_col,
                     page[s].selected_items) = {}) =>
      /\ page[s].error = ""
      /\ page[s].chart
      /\ page[s].chart_data.index = {}

\* ------------------------------------------------------------------------- C9

\* Every session's page shows the table of the file in its own uploader.
OwnTable ==
  \A s \in Sessions :
    /\ page[s].loaded <=> uploaded_file[s] # None
    /\ page[s].loaded => page[s].df = TableOf(s)

\* A step of one session leaves the page and the uploader of every other
\* session as they are.
NoInterference ==
  \A t \in Sessions \ {runner'} :
    page'[t] = page[t] /\ uploaded_file'[t] = uploaded_file[t]

\* C9: in every interleaving of the sessions' runs each session works on the
\* table of its own file, and no run of one session changes what another
\* session sees or has selected.
C9_SessionsIsolated == []OwnTable /\ [][NoInterference]_vars

\* Two sessions hold different files, the second loaded after the first, and
\* the first has changed its selection since.
C9_Witness ==
  /\ uploaded_file["s1"] = "wm.csv" /\ uploaded_file["s2"] = "notes.csv"
  /\ page["s1"].loaded /\ page["s2"].loaded
  /\ page["s1"].fresh = {}

\* ------------------------------------------------------------------------ C10

\* C10: whenever the pickers are on a page the Y column is a column of the
\* page's table of integer or floating-point dtype, and a Y picker that the
\* session has not touched holds Week_of_Supply when that column is numeric
\* and the first numeric column otherwise.
C10_YIsNumeric ==
  \A s \in Sessions :
    page[s].pickers =>
      LET df == TableOf(s)
          y == page[s].y_axis
          numeric == {c \in Range(df.cols) : df.dtype[c] \in {"int", "float"}}
      IN  /\ y \in numeric
          /\ "y" \in page[s].fresh =>
               IF "Week_of_Supply" \in numeric THEN y = "Week_of_Supply"
               ELSE \A c \in numeric : FirstAt(df.cols, y) <= FirstAt(df.cols, c)

\* The default of the Y picker is the well-known column, which is not the
\* first numeric column of the table.
C10_Witness ==
  \E s \in Sessions :
    /\ page[s].pickers /\ "y" \in page[s].fresh
    /\ page[s].y_axis = "Week_of_Supply"
    /\ page[s].df.dtype["wm_yr_wk"] = "int"
    /\ ReachedAggregator(page[s])

====
